---- MODULE Spec2Model ----
(***************************************************************************)
(* Model of bits::repack (src/src/lib.rs).                                 *)
(*                                                                         *)
(* repack<T1, T2>(src, bits_in, bits_out, bits_limit) reads the low        *)
(* bits_in bits of every element of src, MSB first, and regroups the       *)
(* first bits_limit of them into elements of bits_out bits.                *)
(*                                                                         *)
(* An integer type is a record [bits, signed]; a value of the type is its  *)
(* bit pattern, a natural below 2^bits (two's complement for a signed      *)
(* type).  repack uses the element types only through size_of_val * 8,     *)
(* try_from, >>, <<, & and |=, all of which are modelled on patterns of an *)
(* arbitrary width, so the type parameters range over narrow integer       *)
(* types (MaxWidth-1 and MaxWidth bits) and every value of them is tried.  *)
(***************************************************************************)
EXTENDS Integers, Sequences, FiniteSets

\* ---------------------------------------------------------------- bounds
MaxWidth == 3      \* widest element type of the model, in bits
MaxSrcBits == 6    \* most storage bits of a source slice (length * width)
MaxLimit == 6      \* largest bits_limit

\* ----------------------------------------------------------- element types
IntType(w, s) == [bits |-> w, signed |-> s]

\* the signed and unsigned types of the two largest widths
Types == { IntType(w, s) : w \in (MaxWidth - 1)..MaxWidth, s \in BOOLEAN }

\* std::mem::size_of_val(&T::zero()) * 8
BitSize(T) == T.bits

\* the bit patterns of T
Values(T) == 0..(2^T.bits - 1)

\* the number a pattern of T denotes
ToInt(T, p) == IF T.signed /\ p >= 2^(T.bits - 1) THEN p - 2^T.bits ELSE p

MinValue(T) == IF T.signed THEN 0 - 2^(T.bits - 1) ELSE 0
MaxValue(T) == IF T.signed THEN 2^(T.bits - 1) - 1 ELSE 2^T.bits - 1

Zero == 0          \* T::zero()
One  == 1          \* T::one()

\* a fallible conversion yields [ok |-> TRUE, v |-> pattern] or [ok |-> FALSE]
Conv(T, n) ==
    IF MinValue(T) <= n /\ n <= MaxValue(T)
        THEN [ok |-> TRUE, v |-> n % 2^T.bits]
        ELSE [ok |-> FALSE, v |-> 0]

\* T::try_from(n) for n: usize
TryFromUsize(T, n) == Conv(T, n)

\* T2::try_from(p) for p: T1
TryFromT1(Ta, Tb, p) == Conv(Tb, ToInt(Ta, p))

\* bit b of pattern p
Bit(p, b) == (p \div 2^b) % 2

\* `& T1::one()` left out
BitAnd_NoMask(p, q) == p

RECURSIVE BitAnd(_, _)
BitAnd(p, q) ==
    IF p = 0 \/ q = 0 THEN 0
    ELSE (p % 2) * (q % 2) + 2 * BitAnd(p \div 2, q \div 2)

\* `=` written for `|=`
BitOr_Overwrite(p, q) == q

RECURSIVE BitOr(_, _)
BitOr(p, q) ==
    IF p = 0 THEN q
    ELSE IF q = 0 THEN p
    ELSE (IF p % 2 = 1 \/ q % 2 = 1 THEN 1 ELSE 0) + 2 * BitOr(p \div 2, q \div 2)

\* p >> n on T: logical for an unsigned type, arithmetic for a signed one
Shr(T, p, n) ==
    (p \div 2^n)
      + (IF T.signed /\ p >= 2^(T.bits - 1) THEN 2^T.bits - 2^(T.bits - n) ELSE 0)

\* p << n on T: the bits shifted out are lost
Shl(T, p, n) == (p * 2^n) % 2^T.bits

\* ------------------------------------------------------------ error values
InvalidParameter              == "bits_in < 1 || bits_out < 1 || bits_limit < 1"
SourceWidthExceeded           == "bits_in > T1::size"
DestWidthExceeded             == "bits_out > T2::size"
LimitNotAligned               == "bits_limit % bits_out != 0"
ShiftAmountToSourceTypeFailed == "can't convert usize to T1"
ShiftAmountToDestTypeFailed   == "can't convert usize to T2"
BitValueConversionFailed      == "can't convert T1 to T2"
NoError                       == "none"

ValidationErrors ==
    { InvalidParameter, SourceWidthExceeded, DestWidthExceeded, LimitNotAligned }
ConversionErrors ==
    { ShiftAmountToSourceTypeFailed, ShiftAmountToDestTypeFailed,
      BitValueConversionFailed }

Ok(v)  == [ok |-> TRUE, dst |-> v, err |-> NoError]
Err(e) == [ok |-> FALSE, dst |-> << >>, err |-> e]
NoResult == [ok |-> FALSE, dst |-> << >>, err |-> NoError]

\* ------------------------------------------------------------- validation
\* the width of T2 checked before the width of T1
Validate_DestFirst(Ta, Tb, bi, bo, bl) ==
    IF bi < 1 \/ bo < 1 \/ bl < 1 THEN InvalidParameter
    ELSE IF bo > BitSize(Tb) THEN DestWidthExceeded
    ELSE IF bi > BitSize(Ta) THEN SourceWidthExceeded
    ELSE IF bl % bo # 0 THEN LimitNotAligned
    ELSE NoError

Validate(Ta, Tb, bi, bo, bl) ==
    IF bi < 1 \/ bo < 1 \/ bl < 1 THEN InvalidParameter
    ELSE IF bi > BitSize(Ta) THEN SourceWidthExceeded
    ELSE IF bo > BitSize(Tb) THEN DestWidthExceeded
    ELSE IF bl % bo # 0 THEN LimitNotAligned
    ELSE NoError

\* one element too many
AllocDst_OneMore(bl, bo) == [k \in 1..(bl \div bo + 1) |-> Zero]

\* vec![T2::zero(); bits_limit / bits_out]
AllocDst(bl, bo) == [k \in 1..(bl \div bo) |-> Zero]

\* ------------------------------------------------------ index arithmetic
\* the quotient rounded up
SrcI_RoundUp(k, bi) == (k + bi - 1) \div bi

SrcI(k, bi) == k \div bi
SrcB(k, bi) == k % bi
DstI(k, bo) == k \div bo
DstB(k, bo) == k % bo

\* the source field read from its least significant bit
RshAmount_LsbFirst(bi, src_b) == src_b
\* the `- 1` left out of the right shift
RshAmount_OffByOne(bi, src_b) == bi - src_b
\* the destination field filled from its least significant bit
LshAmount_LsbFirst(bo, dst_b) == dst_b
\* the `- 1` left out of the left shift
LshAmount_OffByOne(bo, dst_b) == bo - dst_b

\* bits_in - src_b - 1 and bits_out - dst_b - 1, in usize
RshAmount(bi, src_b) == bi - src_b - 1
LshAmount(bo, dst_b) == bo - dst_b - 1

\* T1::one() for the elements past the end
SrcByte_PadOnes(s, src_i) == IF src_i < Len(s) THEN s[src_i + 1] ELSE One

\* the element read at src_i (sequences are 1-based, slices 0-based)
SrcByte(s, src_i) == IF src_i < Len(s) THEN s[src_i + 1] ELSE Zero

\* --------------------------------------------------- one loop iteration
Next_(d)   == [kind |-> "next",  dst |-> d, err |-> NoError]
Fail(d, e) == [kind |-> "err",   dst |-> d, err |-> e]
Abort(d)   == [kind |-> "panic", dst |-> d, err |-> NoError]

\* The body of `for i in 0..bits_limit` for i = k and dst = d.
\* checks is the build's overflow-checks setting: an arithmetic or shift
\* overflow panics when it is on.  When it is off the usize subtraction wraps
\* to a value near usize::MAX, which no element type of the model holds, so
\* the conversion that follows fails; a shift amount is reduced modulo the
\* width of the type.
Iteration(checks, Ta, Tb, s, bi, bo, k, d) ==
    LET src_i  == SrcI(k, bi)
        src_b  == SrcB(k, bi)
        dst_i  == DstI(k, bo)
        dst_b  == DstB(k, bo)
        rshN   == RshAmount(bi, src_b)
        rsh    == TryFromUsize(Ta, rshN)
        lshN   == LshAmount(bo, dst_b)
        lsh    == TryFromUsize(Tb, lshN)
        src_byte == SrcByte(s, src_i)
        rshE   == IF rsh.v >= BitSize(Ta) THEN rsh.v % BitSize(Ta) ELSE rsh.v
        bit    == BitAnd(Shr(Ta, src_byte, rshE), One)
        src_bit == TryFromT1(Ta, Tb, bit)
        lshE   == IF lsh.v >= BitSize(Tb) THEN lsh.v % BitSize(Tb) ELSE lsh.v
    IN  IF rshN < 0 THEN
            (IF checks THEN Abort(d) ELSE Fail(d, ShiftAmountToSourceTypeFailed))
        ELSE IF ~rsh.ok THEN Fail(d, ShiftAmountToSourceTypeFailed)
        ELSE IF lshN < 0 THEN
            (IF checks THEN Abort(d) ELSE Fail(d, ShiftAmountToDestTypeFailed))
        ELSE IF ~lsh.ok THEN Fail(d, ShiftAmountToDestTypeFailed)
        ELSE IF checks /\ rsh.v >= BitSize(Ta) THEN Abort(d)
        ELSE IF ~src_bit.ok THEN Fail(d, BitValueConversionFailed)
        ELSE IF checks /\ lsh.v >= BitSize(Tb) THEN Abort(d)
        ELSE Next_([d EXCEPT ![dst_i + 1] = BitOr(@, Shl(Tb, src_bit.v, lshE))])

\* ------------------------------------------------- repack as a function
Panicked == [ok |-> FALSE, dst |-> << >>, err |-> "panic"]

RECURSIVE RepackLoop(_, _, _, _, _, _, _, _, _)
RepackLoop(checks, Ta, Tb, s, bi, bo, bl, k, d) ==
    IF k >= bl THEN Ok(d)
    ELSE LET o == Iteration(checks, Ta, Tb, s, bi, bo, k, d)
         IN  IF o.kind = "next"
                 THEN RepackLoop(checks, Ta, Tb, s, bi, bo, bl, k + 1, o.dst)
             ELSE IF o.kind = "err" THEN Err(o.err)
             ELSE Panicked

Repack(checks, Ta, Tb, s, bi, bo, bl) ==
    LET e == Validate(Ta, Tb, bi, bo, bl)
    IN  IF e # NoError THEN Err(e)
        ELSE RepackLoop(checks, Ta, Tb, s, bi, bo, bl, 0, AllocDst(bl, bo))

\* ------------------------------------------------------------------ state
VARIABLES
    pc,               \* "idle", "loop", "returned" or "panicked"
    overflow_checks,  \* the build's overflow-checks setting
    T1, T2,           \* the element types the call is instantiated with
    src, bits_in, bits_out, bits_limit,   \* the arguments
    i,                \* the loop variable
    dst,              \* the output under construction
    result            \* the value returned

vars == << pc, overflow_checks, T1, T2, src, bits_in, bits_out, bits_limit,
           i, dst, result >>

\* the slices of T that take at most MaxSrcBits bits of storage
Slices(T) == UNION { [1..n -> Values(T)] : n \in 0..(MaxSrcBits \div T.bits) }

BitCounts == 0..(MaxWidth + 1)
Limits    == 0..MaxLimit

Init ==
    /\ pc = "idle"
    /\ overflow_checks \in BOOLEAN
    /\ T1 \in Types
    /\ T2 \in Types
    /\ src = << >>
    /\ bits_in = 0
    /\ bits_out = 0
    /\ bits_limit = 0
    /\ i = 0
    /\ dst = << >>
    /\ result = NoResult

\* repack is entered: lines 68-86, the checks and the allocation
Call(s, bi, bo, bl) ==
    /\ pc = "idle"
    /\ src' = s
    /\ bits_in' = bi
    /\ bits_out' = bo
    /\ bits_limit' = bl
    /\ i' = 0
    /\ LET e == Validate(T1, T2, bi, bo, bl)
       IN  IF e # NoError
               THEN /\ pc' = "returned"
                    /\ result' = Err(e)
                    /\ dst' = dst
               ELSE /\ pc' = "loop"
                    /\ result' = result
                    /\ dst' = AllocDst(bl, bo)
    /\ UNCHANGED << overflow_checks, T1, T2 >>

\* one iteration of the loop: lines 87-127
Iterate ==
    /\ pc = "loop"
    /\ i < bits_limit
    /\ LET o == Iteration(overflow_checks, T1, T2, src, bits_in, bits_out, i, dst)
       IN  /\ dst' = o.dst
           /\ IF o.kind = "next"
                  THEN pc' = "loop" /\ i' = i + 1 /\ result' = result
              ELSE IF o.kind = "err"
                  THEN pc' = "returned" /\ i' = i /\ result' = Err(o.err)
              ELSE pc' = "panicked" /\ i' = i /\ result' = Panicked
    /\ UNCHANGED << overflow_checks, T1, T2, src, bits_in, bits_out, bits_limit >>

\* the range is exhausted: line 129
Return ==
    /\ pc = "loop"
    /\ i >= bits_limit
    /\ pc' = "returned"
    /\ result' = Ok(dst)
    /\ UNCHANGED << overflow_checks, T1, T2, src, bits_in, bits_out, bits_limit,
                    i, dst >>

\* a caller invokes repack::<T1, T2> with arbitrary arguments
Invoke ==
    /\ pc = "idle"
    /\ \E s \in Slices(T1), bi \in BitCounts, bo \in BitCounts, bl \in Limits :
           Call(s, bi, bo, bl)

Next ==
    \/ Invoke
    \/ Iterate
    \/ Return

Spec == Init /\ [][Next]_vars

TypeOK ==
    /\ pc \in {"idle", "loop", "returned", "panicked"}
    /\ Len(src) * T1.bits <= MaxSrcBits
    /\ \A k \in DOMAIN src : src[k] \in Values(T1)
    /\ \A k \in DOMAIN dst : dst[k] \in Values(T2)

\* ------------------------------------------------------- shared notions
Returned == pc = "returned"

\* the arguments pass the four checks, stated on the arguments themselves
ValidArgs ==
    /\ bits_in >= 1 /\ bits_out >= 1 /\ bits_limit >= 1
    /\ bits_in <= T1.bits
    /\ bits_out <= T2.bits
    /\ bits_limit % bits_out = 0

\* bit k of the logical stream a slice s holds with bi bits per element
StreamBit(s, bi, k) ==
    IF k \div bi < Len(s) THEN Bit(s[k \div bi + 1], bi - (k % bi) - 1) ELSE 0

\* bit k of the stream an output d holds with bo bits per element
OutBit(d, bo, k) == Bit(d[k \div bo + 1], bo - (k % bo) - 1)

U8  == IntType(8, FALSE)
U16 == IntType(16, FALSE)

\* the call under way, repeated as a function on another source
Again(s) == Repack(overflow_checks, T1, T2, s, bits_in, bits_out, bits_limit)

\* ------------------------------------------------------------------- C1
\* the examples on u16 and u8, under either overflow-checks setting
Widening3To4 ==
    \A c \in BOOLEAN : Repack(c, U16, U8, <<5, 5>>, 3, 4, 8) = Ok(<<11, 4>>)
Split16To8 ==
    \A c \in BOOLEAN :
        Repack(c, U16, U8, <<10512, 10512>>, 16, 8, 32) = Ok(<<41, 16, 41, 16>>)

\* C1: a call that passes validation returns Ok(dst), and bit
\* bits_out - (k % bits_out) - 1 of dst[k / bits_out] is bit
\* bits_in - (k % bits_in) - 1 of src[k / bits_in], or 0 past the end of src,
\* for every k below bits_limit; so [5,5] 3->2 limit 6 is [2,3,1], 3->4 limit
\* 8 is [11,4], and 16->8 yields the two bytes of each element, high first.
C1_OutputIsBitStream ==
    /\ (Returned /\ ValidArgs) =>
          /\ result.ok
          /\ \A k \in 0..(bits_limit - 1) :
                 OutBit(result.dst, bits_out, k) = StreamBit(src, bits_in, k)
    /\ (Returned /\ ValidArgs /\ src = <<5, 5>> /\ bits_in = 3 /\ bits_out = 2
          /\ bits_limit = 6) => result.dst = <<2, 3, 1>>
    /\ Widening3To4
    /\ Split16To8

C1_Witness ==
    /\ Returned /\ result.ok
    /\ src = <<5, 5>> /\ bits_in = 3 /\ bits_out = 2 /\ bits_limit = 6
    /\ result.dst = <<2, 3, 1>>

\* ------------------------------------------------------------------- C2
\* C2: the checks are made in a fixed order and the first that fails names
\* the error: a parameter below 1 gives InvalidParameter, else bits_in above
\* the width of T1 gives SourceWidthExceeded, else bits_out above the width
\* of T2 gives DestWidthExceeded, else a limit that bits_out does not divide
\* gives LimitNotAligned; when none fails no validation error is returned.
C2_ValidationOrder ==
    pc # "idle" =>
        LET low  == bits_in < 1 \/ bits_out < 1 \/ bits_limit < 1
            wide1 == bits_in > T1.bits
            wide2 == bits_out > T2.bits
        IN  /\ low => (Returned /\ result = Err(InvalidParameter))
            /\ (~low /\ wide1) => (Returned /\ result = Err(SourceWidthExceeded))
            /\ (~low /\ ~wide1 /\ wide2) =>
                   (Returned /\ result = Err(DestWidthExceeded))
            /\ (~low /\ ~wide1 /\ ~wide2 /\ bits_limit % bits_out # 0) =>
                   (Returned /\ result = Err(LimitNotAligned))
            /\ ValidArgs => result.err \notin ValidationErrors

\* bits_in too wide for T1 together with a limit that is not aligned
C2_Witness ==
    /\ Returned
    /\ bits_in > T1.bits /\ bits_out > T2.bits
    /\ bits_limit >= 1 /\ bits_limit % bits_out # 0
    /\ result = Err(SourceWidthExceeded)

\* ------------------------------------------------------------------- C3
\* C3: a call that passes validation returns exactly bits_limit / bits_out
\* elements, whatever the source, the empty one included.
C3_OutputLength ==
    (Returned /\ ValidArgs) =>
        (result.ok /\ Len(result.dst) = bits_limit \div bits_out)

C3_Witness ==
    /\ Returned /\ result.ok /\ src = << >>
    /\ bits_out > 1 /\ Len(result.dst) = 3

\* ------------------------------------------------------------------- C4
Zeros(n) == [k \in 1..n |-> Zero]

\* C4: when bits_limit exceeds len(src) * bits_in the call succeeds, every
\* output bit at a position from len(src) * bits_in on is 0, an empty source
\* gives bits_limit / bits_out zero elements, and the result is that of the
\* same call on the source extended with zero elements.
C4_ZeroPadding ==
    (Returned /\ ValidArgs /\ bits_limit > Len(src) * bits_in) =>
        /\ result.ok
        /\ \A k \in (Len(src) * bits_in)..(bits_limit - 1) :
               OutBit(result.dst, bits_out, k) = 0
        /\ src = << >> => result.dst = Zeros(bits_limit \div bits_out)
        /\ \A n \in {1, bits_limit} : Again(src \o Zeros(n)) = result

C4_Witness ==
    /\ Returned /\ result.ok
    /\ Len(src) = 1 /\ src[1] = 2^T1.bits - 1
    /\ bits_in = T1.bits
    /\ bits_limit > 2 * bits_in
    /\ \E k \in DOMAIN result.dst : result.dst[k] # 0

\* ------------------------------------------------------------------- C5
\* the call back: the output repacked with bits_in and bits_out swapped and
\* len(src) * bits_in as the limit
Back == Repack(overflow_checks, T2, T1, result.dst, bits_out, bits_in,
               Len(src) * bits_in)

RoundTrips ==
    /\ Back.ok
    /\ Len(Back.dst) = Len(src)
    /\ \A k \in DOMAIN src : Back.dst[k] = src[k] % 2^bits_in

\* C5 as stated: for every source, when the limit of a successful call
\* covers all source bits, the call back succeeds and returns the low bits_in
\* bits of every source element.
C5_RoundTripAnySource ==
    (Returned /\ result.ok /\ bits_limit >= Len(src) * bits_in) => RoundTrips

\* two u16 values split into bytes with limit 32 and joined again
RoundTrip16 ==
    \A c \in BOOLEAN :
        LET out == Repack(c, U16, U8, <<10512, 4137>>, 16, 8, 32)
        IN  /\ out = Ok(<<41, 16, 16, 41>>)
            /\ Repack(c, U8, U16, out.dst, 8, 16, 32) = Ok(<<10512, 4137>>)

\* C5 amended: the same for every source that is not empty; 16->8 with limit
\* 32 followed by 8->16 with limit 32 returns the two u16 values.
C5_RoundTripNonEmpty ==
    /\ (Returned /\ result.ok /\ bits_limit >= Len(src) * bits_in
           /\ Len(src) >= 1) => RoundTrips
    /\ RoundTrip16

C5_Witness ==
    /\ Returned /\ result.ok
    /\ Len(src) = 2 /\ bits_in = 3 /\ bits_out = 2 /\ bits_limit = 6
    /\ src[1] >= 2^(bits_in - 1) /\ src[2] = 5
    /\ Back.ok /\ Back.dst = << src[1] % 8, 5 >>

\* ------------------------------------------------------------------- C6
\* s and t hold the same bits at every stream position below bl
AgreeBelow(s, t, bi, bl) ==
    \A k \in 0..(bl - 1) : StreamBit(s, bi, k) = StreamBit(t, bi, k)

\* C6: when bits_limit is below len(src) * bits_in the call succeeds with no
\* error and the bits at stream positions from bits_limit on are not read:
\* every source that agrees with src on the bits below bits_limit, whatever
\* its later elements, the low bits of a partly read element and its length,
\* gives the same output.
C6_SilentTruncation ==
    (Returned /\ ValidArgs /\ bits_limit < Len(src) * bits_in) =>
        /\ result.ok
        /\ \A t \in Slices(T1) :
               AgreeBelow(src, t, bits_in, bits_limit) => Again(t) = result

C6_Witness ==
    /\ Returned /\ result.ok
    /\ src = <<7, 7>> /\ bits_in = 3 /\ bits_out = 2 /\ bits_limit = 4
    /\ result.dst = <<3, 3>>
    /\ Again(<<7, 4>>) = result
    /\ Again(<<7, 0>>) # result

\* ------------------------------------------------------------------- C7
\* every element reduced modulo 2^bi
LowBits(s, bi) == [k \in DOMAIN s |-> s[k] % 2^bi]

\* C7: with bits_in below the width of T1, sources of equal length whose
\* elements agree on their low bits_in bits give the same output, which is
\* the output for the source with every element reduced modulo 2^bits_in.
C7_HighBitsIgnored ==
    (Returned /\ ValidArgs /\ bits_in < T1.bits) =>
        /\ Again(LowBits(src, bits_in)) = result
        /\ \A t \in Slices(T1) :
               LowBits(t, bits_in) = LowBits(src, bits_in) => Again(t) = result

C7_Witness ==
    /\ Returned /\ result.ok
    /\ src = <<7, 5>> /\ bits_in = 2 /\ bits_out = 2 /\ bits_limit = 4
    /\ result.dst = <<3, 1>>

\* ------------------------------------------------------------------- C8
\* C8: every element of the output of a successful call has its bits at
\* positions from bits_out on equal to 0, that is, lies in
\* 0..2^bits_out - 1, whatever the source holds above bits_in.
C8_DestHighBitsZero ==
    (Returned /\ result.ok) =>
        \A k \in DOMAIN result.dst :
            /\ result.dst[k] \in 0..(2^bits_out - 1)
            /\ \A b \in bits_out..(T2.bits - 1) : Bit(result.dst[k], b) = 0

C8_Witness ==
    /\ Returned /\ result.ok
    /\ bits_out < T2.bits /\ bits_in < T1.bits
    /\ Len(src) >= 1 /\ src[1] = 2^T1.bits - 1
    /\ Len(result.dst) >= 2
    /\ \A k \in DOMAIN result.dst : result.dst[k] = 2^bits_out - 1

\* ------------------------------------------------------------------- C9
\* where the loop puts stream bit k: the element and the bit within it
Target(k, bo) == << k \div bo, bo - (k % bo) - 1 >>

\* while the loop runs: i is within 0..bits_limit, the map from positions to
\* destination bits is injective, the elements past i / bits_out and the
\* bits of positions not yet visited are still zero
LoopInv ==
    pc = "loop" =>
        /\ i \in 0..bits_limit
        /\ \A a, b \in 0..(bits_limit - 1) :
               a # b => Target(a, bits_out) # Target(b, bits_out)
        /\ \A k \in DOMAIN dst : (k - 1) > i \div bits_out => dst[k] = 0
        /\ \A k \in i..(bits_limit - 1) : OutBit(dst, bits_out, k) = 0

\* one step of a running loop: either position i is visited, at most its
\* target bit changes, from 0, and i goes up by one, or i is bits_limit and
\* the loop stops with dst as the result; the loop starts at 0
LoopStep ==
    /\ (pc = "idle" /\ pc' = "loop") => i' = 0
    /\ pc = "loop" =>
          \/ /\ pc' = "loop"
             /\ i < bits_limit
             /\ i' = i + 1
             /\ LET t == Target(i, bits_out)
                IN  /\ \A k \in DOMAIN dst : k # t[1] + 1 => dst'[k] = dst[k]
                    /\ DOMAIN dst' = DOMAIN dst
                    /\ Bit(dst[t[1] + 1], t[2]) = 0
                    /\ dst'[t[1] + 1] \in { dst[t[1] + 1], dst[t[1] + 1] + 2^t[2] }
                    /\ \A b \in 0..(T2.bits - 1) :
                           Bit(dst[t[1] + 1], b) = 1 => Bit(dst'[t[1] + 1], b) = 1
          \/ /\ pc' = "returned"
             /\ i = bits_limit
             /\ result' = Ok(dst)

\* C9: the loop visits the positions 0..bits_limit - 1 once each in
\* increasing order and then stops; the map from a position to its
\* destination element and bit is injective; at every step the elements past
\* i / bits_out are zero, every bit set earlier stays set and at most the
\* target bit of dst[i / bits_out] changes.
C9_NoClobber == [][LoopStep]_vars /\ []LoopInv

C9_Witness ==
    /\ pc = "loop" /\ i = bits_limit /\ bits_limit = 6 /\ bits_out = 3
    /\ bits_in = 2
    /\ dst = <<7, 5>>

\* ------------------------------------------------------------------ C10
\* C10: after the four checks no numeric-conversion error and no overflow is
\* reachable: in every iteration bits_in - (i % bits_in) - 1 lies in
\* 0..width(T1) - 1 and bits_out - (i % bits_out) - 1 in 0..width(T2) - 1,
\* both are representable in their types, the bit read is 0 or 1, and every
\* call returns one of the four validation errors or a full output.
C10_NoConversionError ==
    /\ pc # "panicked"
    /\ result.err \notin ConversionErrors
    /\ (pc = "loop" /\ i < bits_limit) =>
          LET r == bits_in - (i % bits_in) - 1
              l == bits_out - (i % bits_out) - 1
              o == Iteration(overflow_checks, T1, T2, src, bits_in, bits_out,
                             i, dst)
          IN  /\ r \in 0..(T1.bits - 1) /\ r <= MaxValue(T1)
              /\ l \in 0..(T2.bits - 1) /\ l <= MaxValue(T2)
              /\ RshAmount(bits_in, SrcB(i, bits_in)) = r
              /\ LshAmount(bits_out, DstB(i, bits_out)) = l
              /\ TryFromUsize(T1, r) = [ok |-> TRUE, v |-> r]
              /\ TryFromUsize(T2, l) = [ok |-> TRUE, v |-> l]
              /\ BitAnd(Shr(T1, SrcByte(src, SrcI(i, bits_in)), r), One) \in {0, 1}
              /\ o.kind = "next"
    /\ Returned =>
          \/ result.err \in ValidationErrors /\ ~result.ok
          \/ result.ok /\ Len(result.dst) = bits_limit \div bits_out

C10_Witness ==
    /\ Returned /\ result.ok
    /\ T1.signed /\ bits_in = T1.bits /\ bits_out = T2.bits /\ ~T2.signed
    /\ Len(src) = 3 /\ src[1] >= 2^(T1.bits - 1)
    /\ Len(result.dst) = 2
====
